---- MODULE Spec2Model ----
(***************************************************************************)
(* The Account model of service/models.py: the PersistentBase lifecycle    *)
(* (create / update / delete / all / find) over the process-wide           *)
(* SQLAlchemy session `db.session`, and Account.serialize / deserialize /  *)
(* find_by_name.                                                           *)
(*                                                                         *)
(* Python values are pairs <<type, payload>>.  The session is modelled by  *)
(* what the code's calls do to it: `txn` is the table as the session's     *)
(* open transaction sees it (flushed, not yet committed), `table` is the   *)
(* committed table, and every db.session.commit() flushes every pending    *)
(* change of every instance attached to the session.                       *)
(***************************************************************************)
EXTENDS Naturals, Sequences, FiniteSets, TLC

\* ------------------------------------------------------------- bounds
\* Account instances held by the caller in the lifecycle specification.
NumAccounts == 2
\* Account instances in the create/delete counting specification.
CountAccounts == 5
\* Last calendar day the process clock reaches (days are 1..MaxDay).
MaxDay == 2
\* Attribute assignments the caller makes in one run.
MaxWrites == 1

VARIABLES
    acct,       \* acct[o]: the in-memory Account instance o (its attributes and ORM state)
    table,      \* committed rows of table "account": id -> row
    txn,        \* rows as seen inside the session's open transaction
    seq,        \* next value of the primary-key sequence
    broken,     \* the session's transaction was rolled back by a failed flush
    today,      \* date.today()
    lenientIso, \* the interpreter's date.fromisoformat accepts the basic format (3.11+)
    writes,     \* attribute assignments made so far
    assigned,   \* assigned[o]: the id storage gave o when it was inserted (0: none)
    ncreate,    \* INSERTs committed
    ndelete,    \* DELETEs committed
    last        \* the last call: [op, self, arg, ret, exc]

vars == <<acct, table, txn, seq, broken, today, lenientIso, writes, assigned,
          ncreate, ndelete, last>>

\* ------------------------------------------------------ Python values
NoneV == <<"NoneType", "">>
Str(s) == <<"str", s>>
Int(n) == <<"int", n>>
Date(d) == <<"date", d>>
\* An Account instance handed to the caller, with the attributes it reads off it.
Obj(attrs) == <<"Account", attrs>>
IsNone(v) == v = NoneV
\* Python truthiness of the values used for date_joined.
Truthy(v) == ~(v = NoneV \/ v = Str("") \/ v = Int(0))

\* date.isoformat(): YYYY-MM-DD
isoformat(d) == Str("2024-01-0" \o ToString(d[2]))
\* The same day in ISO 8601 basic format, YYYYMMDD.
BasicIso(d) == Str("2024010" \o ToString(d[2]))

\* Days that a date string of the model can denote.
Days == 1 .. (MaxDay + 1)

NoExc == <<"", "">>
Exc(type, msg) == <<type, msg>>

\* ------------------------------------------------- the Account entity
Columns == {"name", "email", "address", "phone_number", "date_joined"}
RequiredKeys == <<"name", "email", "address">>
SerialKeys == {"id", "name", "email", "address", "phone_number", "date_joined"}

\* Account(**kwargs): a transient instance; columns not given are None.
Account(name, email, address, phone_number, date_joined) ==
    [state |-> "transient", id |-> NoneV, name |-> name, email |-> email,
     address |-> address, phone_number |-> phone_number,
     date_joined |-> date_joined]

\* The column values an instance writes to its row.
RowOf(a) ==
    [name |-> a.name, email |-> a.email, address |-> a.address,
     phone_number |-> a.phone_number, date_joined |-> a.date_joined]

\* The record a caller reads off an instance.
Attrs(a) ==
    [id |-> a.id, name |-> a.name, email |-> a.email, address |-> a.address,
     phone_number |-> a.phone_number, date_joined |-> a.date_joined]

\* An instance loaded from row r with primary key i.
Loaded(i, r) ==
    [id |-> Int(i), name |-> r.name, email |-> r.email, address |-> r.address,
     phone_number |-> r.phone_number, date_joined |-> r.date_joined]

\* nullable=False on name, email, address (and date_joined, which has an
\* INSERT default).
NotNullOK(r) ==
    /\ ~IsNone(r.name) /\ ~IsNone(r.email) /\ ~IsNone(r.address)
    /\ ~IsNone(r.date_joined)

Persistent(o) == acct[o].state = "persistent"
Pool == DOMAIN acct

\* The session's identity map: the instance attached under primary key i.
Attached(i) == {o \in Pool : Persistent(o) /\ acct[o].id = Int(i)}

\* --------------------------------------------------------- the session
\* Session.flush(): every attached instance's pending attribute changes are
\* written to its row inside the open transaction.
Flush(t) ==
    [i \in DOMAIN t |->
        IF Attached(i) # {} THEN RowOf(acct[CHOOSE o \in Attached(i) : TRUE])
        ELSE t[i]]

\* The instance a query hands back for row i: the attached instance when the
\* identity map holds one, else one loaded from the row.
Instance(t, i) ==
    IF Attached(i) # {} THEN Obj(Attrs(acct[CHOOSE o \in Attached(i) : TRUE]))
    ELSE Obj(Loaded(i, t[i]))

RECURSIVE InIdOrder(_, _)
\* The rows `ids` of t as instances, by ascending primary key.
InIdOrder(t, ids) ==
    IF ids = {} THEN <<>>
    ELSE LET i == CHOOSE x \in ids : \A y \in ids : x <= y
         IN  <<Instance(t, i)>> \o InIdOrder(t, ids \ {i})

\* Mutant of Committed: the commit is lost, the committed table stays as it was.
CommittedLost(t) == table

\* db.session.commit(): the rows of the transaction become the committed table.
Committed(t) == t

\* Mutant of WithoutRow: the instance is detached but its row is not deleted.
WithoutRowKept(t, i) == t

\* db.session.delete(self), flushed: the DELETE removes row i.
WithoutRow(t, i) == [j \in DOMAIN t \ {i} |-> t[j]]

\* Mutant of NewId: the key is the row count plus one, so a key can come back
\* after a delete.
NewIdByCount == Cardinality(DOMAIN txn) + 1

\* The primary key the INSERT assigns: id is an autoincrementing Integer column.
NewId == seq

Called(op, o, arg, ret, exc) ==
    [op |-> op, self |-> o, arg |-> arg, ret |-> ret, exc |-> exc]

PendingRollback ==
    Exc("PendingRollbackError", "This Session's transaction has been rolled back")

\* A session call made after a failed flush: src never calls rollback(), so
\* the call raises and changes nothing.
Refused(op, o, arg) ==
    /\ broken
    /\ last' = Called(op, o, arg, NoneV, PendingRollback)
    /\ UNCHANGED <<acct, table, txn, seq, broken, today, lenientIso, writes,
                   assigned, ncreate, ndelete>>

\* db.session.commit() with nothing to insert or delete: flush, then commit.
CommitOnly(op, o) ==
    /\ txn' = Flush(txn)
    /\ table' = Committed(txn')
    /\ last' = Called(op, o, NoneV, NoneV, NoExc)
    /\ UNCHANGED <<acct, seq, broken, today, lenientIso, writes, assigned,
                   ncreate, ndelete>>

\* A call that raises before it reaches the session's commit.
Raised(op, o, exc) ==
    /\ last' = Called(op, o, NoneV, NoneV, exc)
    /\ UNCHANGED <<acct, table, txn, seq, broken, today, lenientIso, writes,
                   assigned, ncreate, ndelete>>

\* ------------------------------------------------------ PersistentBase
\* create(): db.session.add(self); db.session.commit()
Create(o) ==
    \/ Refused("create", o, NoneV)
    \/ /\ ~broken /\ acct[o].state = "transient"
       /\ LET a == acct[o]
              \* date_joined has default=date.today, applied at INSERT
              r == [RowOf(a) EXCEPT !.date_joined =
                        IF IsNone(a.date_joined) THEN Date(today) ELSE @]
          IN  IF NotNullOK(r)
              THEN /\ acct' = [acct EXCEPT ![o] =
                          [a EXCEPT !.state = "persistent", !.id = Int(NewId),
                                    !.date_joined = r.date_joined]]
                   /\ txn' = [i \in DOMAIN txn \cup {NewId} |->
                                 IF i = NewId THEN r ELSE Flush(txn)[i]]
                   /\ table' = Committed(txn')
                   /\ seq' = seq + 1
                   /\ assigned' = [assigned EXCEPT ![o] = NewId]
                   /\ ncreate' = ncreate + 1
                   /\ last' = Called("create", o, NoneV, NoneV, NoExc)
                   /\ UNCHANGED <<broken, today, lenientIso, writes, ndelete>>
              ELSE \* NOT NULL violation: the flush raises IntegrityError and
                   \* rolls the transaction back; the instance is expunged and
                   \* the attached instances are expired (their pending
                   \* changes are discarded).
                   /\ broken' = TRUE
                   /\ txn' = table
                   /\ acct' = [p \in Pool |->
                                 IF Persistent(p) /\ acct[p].id[2] \in DOMAIN table
                                 THEN [acct[p] EXCEPT
                                         !.name = table[acct[p].id[2]].name,
                                         !.email = table[acct[p].id[2]].email,
                                         !.address = table[acct[p].id[2]].address,
                                         !.phone_number = table[acct[p].id[2]].phone_number,
                                         !.date_joined = table[acct[p].id[2]].date_joined]
                                 ELSE acct[p]]
                   /\ last' = Called("create", o, NoneV, NoneV,
                                     Exc("IntegrityError", "null value violates not-null constraint"))
                   /\ UNCHANGED <<table, seq, today, lenientIso, writes,
                                  assigned, ncreate, ndelete>>
    \/ \* already attached: add() is a no-op, commit() flushes and commits
       /\ ~broken /\ Persistent(o)
       /\ CommitOnly("create", o)
    \/ \* a deleted instance cannot be added again
       /\ ~broken /\ acct[o].state = "detached"
       /\ Raised("create", o, Exc("InvalidRequestError", "Instance has been deleted"))

\* Mutant of Update: the changes are flushed into the transaction but never
\* committed.
UpdateFlushOnly(o) ==
    \/ Refused("update", o, NoneV)
    \/ /\ ~broken
       /\ txn' = Flush(txn)
       /\ last' = Called("update", o, NoneV, NoneV, NoExc)
       /\ UNCHANGED <<acct, table, seq, broken, today, lenientIso, writes,
                      assigned, ncreate, ndelete>>

\* update(): db.session.commit()
Update(o) ==
    \/ Refused("update", o, NoneV)
    \/ /\ ~broken
       /\ CommitOnly("update", o)

\* delete(): db.session.delete(self); db.session.commit()
Delete(o) ==
    \/ Refused("delete", o, NoneV)
    \/ /\ ~broken /\ Persistent(o)
       /\ LET i == acct[o].id[2]
          IN  /\ acct' = [acct EXCEPT ![o].state = "detached"]
              /\ txn' = WithoutRow(Flush(txn), i)
              /\ table' = Committed(txn')
              /\ ndelete' = ndelete + 1
              /\ last' = Called("delete", o, NoneV, NoneV, NoExc)
              /\ UNCHANGED <<seq, broken, today, lenientIso, writes, assigned,
                             ncreate>>
    \/ \* session.delete() of an instance that was never persisted raises
       /\ ~broken /\ acct[o].state = "transient"
       /\ Raised("delete", o, Exc("InvalidRequestError", "Instance is not persisted"))
    \/ \* a second delete() of the same instance: the DELETE matches no row;
       \* the library either refuses it or warns and commits
       /\ ~broken /\ acct[o].state = "detached"
       /\ \/ Raised("delete", o, Exc("InvalidRequestError", "Instance is not persisted"))
          \/ CommitOnly("delete", o)

\* all(): cls.query.all() (the query autoflushes)
AllRows(t) == InIdOrder(t, DOMAIN t)

All ==
    \/ Refused("all", 0, NoneV)
    \/ /\ ~broken
       /\ txn' = Flush(txn)
       /\ last' = Called("all", 0, NoneV, AllRows(txn'), NoExc)
       /\ UNCHANGED <<acct, table, seq, broken, today, lenientIso, writes,
                      assigned, ncreate, ndelete>>

\* find(by_id): cls.query.get(by_id): the identity map first, then the row
FindRow(t, i) ==
    IF Attached(i) # {} \/ i \in DOMAIN t THEN Instance(t, i) ELSE NoneV

Find(i) ==
    \/ Refused("find", 0, Int(i))
    \/ /\ ~broken
       /\ last' = Called("find", 0, Int(i), FindRow(txn, i), NoExc)
       /\ UNCHANGED <<acct, table, txn, seq, broken, today, lenientIso, writes,
                      assigned, ncreate, ndelete>>

\* ------------------------------------------------------------- Account
\* Python's str.lower() on the names of the model.
Lower(v) == IF v = Str("Alice") THEN Str("alice") ELSE v

\* Mutant of NameRows: the comparison ignores case.
NameRowsIgnoreCase(t, name) ==
    InIdOrder(t, {i \in DOMAIN t : Lower(t[i].name) = Lower(name)})

\* Mutant of FindByName: the query commits what it flushed.
FindByNameCommits(name) ==
    \/ Refused("find_by_name", 0, name)
    \/ /\ ~broken
       /\ txn' = Flush(txn)
       /\ table' = txn'
       /\ last' = Called("find_by_name", 0, name,
                         InIdOrder(txn', {i \in DOMAIN txn' : txn'[i].name = name}),
                         NoExc)
       /\ UNCHANGED <<acct, seq, broken, today, lenientIso, writes, assigned,
                      ncreate, ndelete>>

\* find_by_name(name): cls.query.filter(cls.name == name).all() (autoflushes);
\* the comparison is SQL string equality on the flushed rows.
NameRows(t, name) == InIdOrder(t, {i \in DOMAIN t : t[i].name = name})

FindByName(name) ==
    \/ Refused("find_by_name", 0, name)
    \/ /\ ~broken
       /\ txn' = Flush(txn)
       /\ last' = Called("find_by_name", 0, name, NameRows(txn', name), NoExc)
       /\ UNCHANGED <<acct, table, seq, broken, today, lenientIso, writes,
                      assigned, ncreate, ndelete>>

\* serialize(): the instance as a dictionary
serialize(a) ==
    [id |-> a.id, name |-> a.name, email |-> a.email, address |-> a.address,
     phone_number |-> a.phone_number,
     date_joined |-> IF Truthy(a.date_joined) THEN isoformat(a.date_joined)
                     ELSE NoneV]

\* (on an instance whose attributes are loaded: after a failed flush the
\* attributes of an attached instance are expired and cannot be read)
Serialize(o) ==
    /\ ~(broken /\ Persistent(o))
    /\ last' = Called("serialize", o, NoneV, serialize(acct[o]), NoExc)
    /\ UNCHANGED <<acct, table, txn, seq, broken, today, lenientIso, writes,
                   assigned, ncreate, ndelete>>

\* Request data: a dict (a function from its keys) or a value of another type.
Dict(items) == [kind |-> "dict", items |-> items]
NonDict(kind) == [kind |-> kind, items |-> <<>>]

\* str(error) of the TypeError raised by data["name"] on a non-dict.
SubscriptError(kind) ==
    CASE kind = "list" -> "list indices must be integers or slices, not str"
      [] kind = "str" -> "string indices must be integers, not 'str'"
      [] OTHER -> "'" \o kind \o "' object is not subscriptable"

Ok(v) == [val |-> v, exc |-> NoExc]
Err(type, msg) == [val |-> NoneV, exc |-> Exc(type, msg)]

\* data[key]
GetItem(data, key) ==
    IF data.kind = "dict"
    THEN IF key \in DOMAIN data.items THEN Ok(data.items[key])
         ELSE Err("KeyError", key)
    ELSE Err("TypeError", SubscriptError(data.kind))

\* data.get(key)
Get(data, key) ==
    IF key \in DOMAIN data.items THEN data.items[key] ELSE NoneV

\* date.fromisoformat(v)
fromisoformat(v, lenient) ==
    IF v[1] # "str" THEN Err("TypeError", "fromisoformat: argument must be str")
    ELSE IF \E d \in Days : v = isoformat(Date(d))
    THEN Ok(Date(CHOOSE d \in Days : v = isoformat(Date(d))))
    ELSE IF lenient /\ \E d \in Days : v = BasicIso(Date(d))
    THEN Ok(Date(CHOOSE d \in Days : v = BasicIso(Date(d))))
    ELSE Err("ValueError", "Invalid isoformat string")

\* Mutant of Translate: only KeyError is caught; a TypeError propagates.
TranslateKeyErrorOnly(exc) ==
    IF exc[1] = "KeyError"
    THEN Exc("DataValidationError", "Invalid Account: missing " \o exc[2])
    ELSE exc

\* The except clauses of deserialize: KeyError and TypeError become
\* DataValidationError, anything else propagates.
Translate(exc) ==
    CASE exc[1] = "KeyError" ->
            Exc("DataValidationError", "Invalid Account: missing " \o exc[2])
      [] exc[1] = "TypeError" ->
            Exc("DataValidationError",
                "Invalid Account: body of request contained bad or no data - " \o exc[2])
      [] OTHER -> exc

\* Mutant of AssignRequired: every required key is looked up (address first)
\* before anything is assigned.
AssignRequiredAtomic(a, data) ==
    LET ad == GetItem(data, "address")
        e == GetItem(data, "email")
        n == GetItem(data, "name") IN
    IF ad.exc # NoExc THEN [acct |-> a, exc |-> ad.exc] ELSE
    IF e.exc # NoExc THEN [acct |-> a, exc |-> e.exc] ELSE
    IF n.exc # NoExc THEN [acct |-> a, exc |-> n.exc] ELSE
    [acct |-> [a EXCEPT !.name = n.val, !.email = e.val, !.address = ad.val],
     exc |-> NoExc]

\* Mutant of AssignRequired: email is assigned before name.
AssignRequiredEmailFirst(a, data) ==
    LET e == GetItem(data, "email") IN
    IF e.exc # NoExc THEN [acct |-> a, exc |-> e.exc] ELSE
    LET a1 == [a EXCEPT !.email = e.val]
        n == GetItem(data, "name") IN
    IF n.exc # NoExc THEN [acct |-> a1, exc |-> n.exc] ELSE
    LET a2 == [a1 EXCEPT !.name = n.val]
        ad == GetItem(data, "address") IN
    IF ad.exc # NoExc THEN [acct |-> a2, exc |-> ad.exc] ELSE
    [acct |-> [a2 EXCEPT !.address = ad.val], exc |-> NoExc]

\* The assignments of the required keys, in the order the code makes them:
\* self.name = data["name"]; self.email = data["email"];
\* self.address = data["address"].  The first failing lookup ends them.
AssignRequired(a, data) ==
    LET n == GetItem(data, "name") IN
    IF n.exc # NoExc THEN [acct |-> a, exc |-> n.exc] ELSE
    LET a1 == [a EXCEPT !.name = n.val]
        e == GetItem(data, "email") IN
    IF e.exc # NoExc THEN [acct |-> a1, exc |-> e.exc] ELSE
    LET a2 == [a1 EXCEPT !.email = e.val]
        ad == GetItem(data, "address") IN
    IF ad.exc # NoExc THEN [acct |-> a2, exc |-> ad.exc] ELSE
    [acct |-> [a2 EXCEPT !.address = ad.val], exc |-> NoExc]

\* Mutant of AssignOptional: a date_joined the instance already has is kept
\* when the data gives none.
AssignOptionalKeepsDate(a, data, td, lenient) ==
    LET a4 == [a EXCEPT !.phone_number = Get(data, "phone_number")]
        date_joined == Get(data, "date_joined")
        dj == IF Truthy(date_joined) THEN fromisoformat(date_joined, lenient)
              ELSE IF IsNone(a.date_joined) THEN Ok(Date(td))
              ELSE Ok(a.date_joined) IN
    IF dj.exc # NoExc THEN [acct |-> a4, exc |-> dj.exc] ELSE
    [acct |-> [a4 EXCEPT !.date_joined = dj.val], exc |-> NoExc]

\* self.phone_number = data.get("phone_number"); then date_joined: parsed when
\* the value is truthy, date.today() otherwise.
AssignOptional(a, data, td, lenient) ==
    LET a4 == [a EXCEPT !.phone_number = Get(data, "phone_number")]
        date_joined == Get(data, "date_joined")
        dj == IF Truthy(date_joined) THEN fromisoformat(date_joined, lenient)
              ELSE Ok(Date(td)) IN
    IF dj.exc # NoExc THEN [acct |-> a4, exc |-> dj.exc] ELSE
    [acct |-> [a4 EXCEPT !.date_joined = dj.val], exc |-> NoExc]

\* deserialize(data) on instance a with date.today() = Date(td): the instance
\* as the call leaves it, and the exception it raises (NoExc: it returns self).
deserialize(a, data, td, lenient) ==
    LET req == AssignRequired(a, data) IN
    IF req.exc # NoExc THEN [acct |-> req.acct, exc |-> Translate(req.exc)] ELSE
    LET opt == AssignOptional(req.acct, data, td, lenient) IN
    [acct |-> opt.acct, exc |-> Translate(opt.exc)]

Deserialize(o, data) ==
    /\ writes < MaxWrites
    /\ LET res == deserialize(acct[o], data, today, lenientIso)
       IN  /\ acct' = [acct EXCEPT ![o] = res.acct]
           /\ last' = Called("deserialize", o, data,
                             IF res.exc = NoExc THEN Int(o) ELSE NoneV, res.exc)
    /\ writes' = writes + 1
    /\ UNCHANGED <<table, txn, seq, broken, today, lenientIso, assigned,
                   ncreate, ndelete>>

\* account.<column> = v
SetAttr(o, column, v) ==
    /\ writes < MaxWrites
    /\ acct' = [acct EXCEPT ![o][column] = v]
    /\ writes' = writes + 1
    /\ last' = Called("setattr", o, <<column, v>>, NoneV, NoExc)
    /\ UNCHANGED <<table, txn, seq, broken, today, lenientIso, assigned,
                   ncreate, ndelete>>

\* The process clock passes midnight: date.today() moves on.
Tick ==
    /\ today < MaxDay
    /\ today' = today + 1
    /\ last' = Called("tick", 0, NoneV, NoneV, NoExc)
    /\ UNCHANGED <<acct, table, txn, seq, broken, lenientIso, writes, assigned,
                   ncreate, ndelete>>

\* ------------------------------------------------------------- inputs
Names == {Str("alice"), Str("Alice")}
Blank == Account(NoneV, NoneV, NoneV, NoneV, NoneV)

\* Values the caller assigns to a column of an instance.
Assignable(column) ==
    CASE column = "name" -> Names
      [] column = "email" -> {Str("new@email.com")}
      [] column = "phone_number" -> {Str("555-0100")}
      [] OTHER -> {}

\* Instances as the caller constructs them: Account() and Account(**fields).
Constructed ==
    {Blank,
     Account(Str("alice"), Str("old@email.com"), Str("1 Main St"), NoneV, NoneV)}

Absent == <<"absent", "">>
\* The dict holding the keys of m whose value is not Absent.
DictOf(m) == Dict([k \in {c \in DOMAIN m : m[c] # Absent} |-> m[k]])

\* Request bodies of the lifecycle specification.
StoreInputs ==
    {DictOf([name |-> Str("Alice"), email |-> Str("new@email.com"),
             address |-> Str("2 Side St"), phone_number |-> Absent,
             date_joined |-> Absent])}

\* Instance 1 is constructed either way, the other instances with their
\* fields given; the table is empty.
Init ==
    /\ acct \in {f \in [1 .. NumAccounts -> Constructed] :
                    \A o \in 2 .. NumAccounts : f[o] # Blank}
    /\ table = <<>>
    /\ txn = <<>>
    /\ seq = 1
    /\ broken = FALSE
    /\ today = 1
    /\ lenientIso = FALSE
    /\ writes = 0
    /\ assigned = [o \in 1 .. NumAccounts |-> 0]
    /\ ncreate = 0
    /\ ndelete = 0
    /\ last = Called("init", 0, NoneV, NoneV, NoExc)

Next ==
    \/ \E o \in Pool : Create(o)
    \/ \E o \in Pool : Update(o)
    \/ \E o \in Pool : Delete(o)
    \/ All
    \/ \E i \in 1 .. NumAccounts : Find(i)
    \/ \E n \in Names : FindByName(n)
    \/ \E o \in Pool, d \in StoreInputs : Deserialize(o, d)
    \/ \E o \in Pool, c \in Columns : \E v \in Assignable(c) : SetAttr(o, c, v)

Spec == Init /\ [][Next]_vars

\* ------------------------------------------- deserialize / serialize
\* Values a request body gives each key (Absent: the key is not there).
KeyValues(k) ==
    CASE k = "name" -> {Absent, Str("alice"), Str("Alice")}
      [] k = "email" -> {Absent, Str("old@email.com"), Str("new@email.com")}
      [] k = "address" -> {Absent, Str("2 Side St")}
      [] k = "phone_number" -> {Absent, Str("555-0199")}
      [] k = "date_joined" ->
            {Absent, NoneV, isoformat(Date(MaxDay + 1)), BasicIso(Date(MaxDay + 1)),
             Str("not-a-date"), Int(5)}

DeserInputs ==
    {DictOf(m) : m \in {f \in [Columns -> UNION {KeyValues(k) : k \in Columns}] :
                          \A k \in Columns : f[k] \in KeyValues(k)}}
    \cup {NonDict("list"), NonDict("NoneType"), NonDict("str"), NonDict("int")}

InitDeser ==
    /\ acct \in [{1} -> Constructed \cup
                    {Account(Str("alice"), Str("old@email.com"), Str("1 Main St"),
                             Str("555-0100"), Date(1))}]
    /\ table = <<>>
    /\ txn = <<>>
    /\ seq = 1
    /\ broken = FALSE
    /\ today = 1
    /\ lenientIso \in BOOLEAN
    /\ writes = 0
    /\ assigned = [o \in {1} |-> 0]
    /\ ncreate = 0
    /\ ndelete = 0
    /\ last = Called("init", 0, NoneV, NoneV, NoExc)

NextDeser ==
    \/ \E o \in Pool, d \in DeserInputs : Deserialize(o, d)
    \/ \E o \in Pool : Serialize(o)
    \/ Tick

SpecDeser == InitDeser /\ [][NextDeser]_vars

\* ------------------------------------------------- create / delete / all
\* The caller holds CountAccounts instances with every required field set,
\* all alike, and instance 0, an Account() with nothing set.
InitCount ==
    /\ acct = [o \in 0 .. CountAccounts |->
                 IF o = 0 THEN Blank
                 ELSE Account(Str("alice"), Str("old@email.com"),
                              Str("1 Main St"), NoneV, NoneV)]
    /\ table = <<>>
    /\ txn = <<>>
    /\ seq = 1
    /\ broken = FALSE
    /\ today = 1
    /\ lenientIso = FALSE
    /\ writes = 0
    /\ assigned = [o \in 0 .. CountAccounts |-> 0]
    /\ ncreate = 0
    /\ ndelete = 0
    /\ last = Called("init", 0, NoneV, NoneV, NoExc)

\* The instances being alike, the caller creates them in pool order; it
\* deletes them in any order.
InPoolOrder(o) ==
    acct[o].state = "transient" => \A p \in 1 .. (o - 1) : acct[p].state # "transient"

NextCount ==
    \/ \E o \in Pool : InPoolOrder(o) /\ Create(o)
    \/ \E o \in Pool : Delete(o)
    \/ All

SpecCount == InitCount /\ [][NextCount]_vars

\* ------------------------------------------------------------- claims
Deleted(o) == acct[o].state = "detached"
Key(o) == acct[o].id[2]
CommitOps == {"create", "update", "delete"}
Elems(q) == {q[k] : k \in 1 .. Len(q)}
MissingExc(key) == Exc("DataValidationError", "Invalid Account: missing " \o key)

\* A create() of transient instance o, with its required fields set and the
\* session usable, and what holds when it is over.
C1_CreateStep(o) ==
    (/\ last'.op = "create" /\ last'.self = o
     /\ ~broken /\ acct[o].state = "transient"
     /\ ~IsNone(acct[o].name) /\ ~IsNone(acct[o].email) /\ ~IsNone(acct[o].address))
    => /\ last'.exc = NoExc
       /\ acct'[o].id # NoneV
       /\ LET i == acct'[o].id[2]
              found == (FindRow(txn, Key(o)))'
              listed == (AllRows(Flush(txn)))'
              orig == acct[o]
          IN  /\ found # NoneV
              /\ found[2].id = acct'[o].id
              /\ found[2].name = orig.name
              /\ found[2].email = orig.email
              /\ found[2].address = orig.address
              /\ found[2].phone_number = orig.phone_number
              /\ found[2].date_joined = IF IsNone(orig.date_joined) THEN Date(today)
                                        ELSE orig.date_joined
              /\ found = Obj(Attrs(acct'[o]))
              /\ i \in DOMAIN table'
              /\ Obj(Loaded(i, table'[i])) = found
              /\ found \in Elems(listed)

\* C1: create() on a transient Account whose name, email and address are set
\* returns with the instance's id set; find(id) then gives a record with that
\* id and the instance's name, email, address, phone_number and date_joined
\* (the INSERT default, today, when the instance had none), the committed
\* table holds that row, and all() contains the record.
C1_CreatePersists == [][\A o \in Pool : C1_CreateStep(o)]_vars

\* C1 witness: a create() has just inserted an instance which had no
\* date_joined, beside the committed row of another instance.
C1_Witness ==
    /\ last.op = "create" /\ last.exc = NoExc
    /\ assigned[last.self] = seq - 1
    /\ assigned[last.self] \in DOMAIN table
    /\ table[assigned[last.self]].date_joined = Date(today)
    /\ Cardinality(DOMAIN table) = 2

\* C2 as stated: the committed row of a persisted Account A changes on no step
\* other than a call on A itself.
C2_OnlyOwnUpdate ==
    [][\A o \in Pool :
        (/\ Persistent(o) /\ Key(o) \in DOMAIN table
         /\ ~(last'.self = o /\ last'.op \in CommitOps))
        => (Key(o) \in DOMAIN table' /\ table'[Key(o)] = table[Key(o)])]_vars

\* C2 amended: find, all, find_by_name, serialize, deserialize and attribute
\* assignment leave the committed table as it is; a create(), update() or
\* delete() that returns, on whichever instance, commits the shared session,
\* after which the committed row of every persisted instance carries that
\* instance's in-memory values.
C2_DurableAtCommit ==
    [][/\ last'.op \notin CommitOps => table' = table
       /\ (last'.op \in CommitOps /\ last'.exc = NoExc)
            => \A o \in Pool :
                 (acct'[o].state = "persistent")
                 => /\ acct'[o].id[2] \in DOMAIN table'
                    /\ table'[acct'[o].id[2]] = RowOf(acct'[o])]_vars

\* C2 witness: a query has returned while a persisted instance still holds a
\* value its committed row does not.
C2_Witness ==
    /\ last.op \in {"all", "find", "find_by_name"} /\ last.exc = NoExc
    /\ \E o \in Pool : /\ Persistent(o) /\ Key(o) \in DOMAIN table
                       /\ table[Key(o)] # RowOf(acct[o])

\* A deleted instance's id is in neither the committed table nor the
\* transaction, find(id) gives None and all() holds no record with that id.
C3_Gone ==
    \A o \in Pool :
        Deleted(o) =>
            /\ Key(o) \notin DOMAIN table
            /\ Key(o) \notin DOMAIN txn
            /\ FindRow(txn, Key(o)) = NoneV
            /\ \A r \in Elems(AllRows(Flush(txn))) : r[2].id # acct[o].id
            /\ (last.op = "find" /\ last.exc = NoExc /\ last.arg = acct[o].id)
                 => last.ret = NoneV
            /\ (last.op = "all" /\ last.exc = NoExc)
                 => \A r \in Elems(last.ret) : r[2].id # acct[o].id

\* A delete() of o leaves every other persisted instance in the committed
\* table, and find and all() give it with the values it had.
C3_OthersKept ==
    \A o \in Pool :
        (/\ last'.op = "delete" /\ last'.self = o /\ last'.exc = NoExc
         /\ Persistent(o))
        => \A p \in Pool \ {o} :
             Persistent(p) =>
                /\ Key(p) \in DOMAIN table'
                /\ FindRow(txn, Key(p)) # NoneV
                /\ (FindRow(txn, Key(p)))' = FindRow(txn, Key(p))
                /\ FindRow(txn, Key(p)) \in Elems((AllRows(Flush(txn)))')

\* C3: once an Account is deleted, in every later state find(id) gives None
\* and all() holds no record with that id (its row is in neither the committed
\* table nor the transaction); the delete() leaves every other persisted
\* record retrievable with the values it had.
C3_DeleteIsTerminal == [](C3_Gone) /\ [][C3_OthersKept]_vars

\* C3 witness: a find() of the deleted instance's id has returned, after the
\* delete, while another instance is still persisted.
C3_Witness ==
    /\ last.op = "find" /\ last.exc = NoExc /\ last.ret = NoneV
    /\ \E o \in Pool : Deleted(o) /\ last.arg = acct[o].id
    /\ \E p \in Pool : Persistent(p)

\* C4: update() on a persisted Account commits the instance as it is in
\* memory: the committed row and find(id) carry the newly set value, the same
\* id, and every other field as it was.
C4_UpdatePersists ==
    [][\A o \in Pool :
        (/\ last'.op = "update" /\ last'.self = o /\ last'.exc = NoExc
         /\ Persistent(o))
        => /\ Key(o) \in DOMAIN table'
           /\ table'[Key(o)] = RowOf(acct[o])
           /\ (FindRow(txn, Key(o)))' = Obj(Attrs(acct[o]))
           /\ Loaded(Key(o), table'[Key(o)]) = Attrs(acct[o])]_vars

\* C4 witness: update() has returned on an instance whose email was set to a
\* new value after it was created, and the committed row has the new value.
C4_Witness ==
    /\ last.op = "update" /\ last.exc = NoExc
    /\ Persistent(last.self) /\ writes > 0
    /\ table[Key(last.self)].email = Str("new@email.com")
    /\ table[Key(last.self)].name = acct[last.self].name

\* C5: starting from an empty table, all() returns exactly the records created
\* and not yet deleted, each once: as many as creates minus deletes, with
\* pairwise distinct ids, each the id assigned when the record was created.
C5_AllCounts ==
    (last.op = "all" /\ last.exc = NoExc) =>
        LET ret == last.ret
            live == {o \in Pool : assigned[o] # 0 /\ ~Deleted(o)}
        IN  /\ Len(ret) = ncreate - ndelete
            /\ \A j, k \in 1 .. Len(ret) : j # k => ret[j][2].id # ret[k][2].id
            /\ {r[2].id : r \in Elems(ret)} = {Int(assigned[o]) : o \in live}
            /\ Elems(ret) = {Obj(Attrs(acct[o])) : o \in live}

\* C5 witness: all() after five creates and one delete returns four records.
C5_Witness ==
    /\ last.op = "all" /\ last.exc = NoExc
    /\ ncreate = 5 /\ ndelete = 1
    /\ Len(last.ret) = 4

\* The required keys a mapping lacks, by their place in name, email, address.
MissingKeys(data) == {k \in 1 .. 3 : RequiredKeys[k] \notin DOMAIN data.items}
FirstMissing(data) ==
    RequiredKeys[CHOOSE k \in MissingKeys(data) : \A j \in MissingKeys(data) : k <= j]

\* C6: deserialize of a mapping that lacks a required key raises
\* DataValidationError naming the first missing key in the order name, email,
\* address, and returns no instance.
C6_MissingKeyNamed ==
    (/\ last.op = "deserialize" /\ last.arg.kind = "dict"
     /\ MissingKeys(last.arg) # {})
    => /\ last.exc = MissingExc(FirstMissing(last.arg))
       /\ last.ret = NoneV

\* C6 witness: deserialize({}) has raised, citing name.
C6_Witness ==
    /\ last.op = "deserialize" /\ last.arg = Dict(<<>>)
    /\ last.exc = Exc("DataValidationError", "Invalid Account: missing name")

\* C7: deserialize of a value that is not a mapping raises DataValidationError
\* with the bad-or-no-data message, which is none of the missing-key messages.
C7_NotAMapping ==
    (last.op = "deserialize" /\ last.arg.kind # "dict")
    => /\ last.exc =
            Exc("DataValidationError",
                "Invalid Account: body of request contained bad or no data - "
                    \o SubscriptError(last.arg.kind))
       /\ last.exc \notin {MissingExc(k) : k \in Columns}
       /\ last.ret = NoneV

\* C7 witness: deserialize([]) has raised.
C7_Witness ==
    /\ last.op = "deserialize" /\ last.arg = NonDict("list")
    /\ last.exc[1] = "DataValidationError"

\* C8: when deserialize returns, serialize of the instance has exactly the six
\* keys, the input's name, email and address, and a date_joined that is not
\* None: the supplied ISO date when one was given, today's date when the key
\* was omitted (or given without a value).
C8_RoundTrip ==
    (last.op = "deserialize" /\ last.exc = NoExc) =>
        LET data == last.arg
            m == serialize(acct[last.self])
            given == Get(data, "date_joined")
        IN  /\ last.ret = Int(last.self)
            /\ DOMAIN m = SerialKeys
            /\ m.name = data.items["name"]
            /\ m.email = data.items["email"]
            /\ m.address = data.items["address"]
            /\ m.date_joined # NoneV
            /\ ~Truthy(given) => m.date_joined = isoformat(Date(today))
            /\ Truthy(given) =>
                 \E d \in Days : /\ given \in {isoformat(Date(d)), BasicIso(Date(d))}
                                 /\ m.date_joined = isoformat(Date(d))

\* C8 witness: deserialize without date_joined has returned on day 2, and the
\* instance serializes with the day of the call.
C8_Witness ==
    /\ last.op = "deserialize" /\ last.exc = NoExc
    /\ "date_joined" \notin DOMAIN last.arg.items
    /\ today = 2
    /\ serialize(acct[last.self]).date_joined = isoformat(Date(2))

\* What find_by_name(name) has returned, the session being usable.
C9_Result ==
    (last.op = "find_by_name" /\ ~broken) =>
        LET match == {o \in Pool : Persistent(o) /\ acct[o].name = last.arg}
        IN  /\ last.exc = NoExc
            /\ Elems(last.ret) = {Obj(Attrs(acct[o])) : o \in match}
            /\ Len(last.ret) = Cardinality(match)

\* A find_by_name step changes neither the committed table nor an instance.
C9_ReadOnly == last'.op = "find_by_name" => (table' = table /\ acct' = acct)

C10_PartialAssignment ==
    [][\A o \in Pool :
        (/\ last'.op = "deserialize" /\ last'.self = o
         /\ last'.exc \in {MissingExc("email"), MissingExc("address")})
        => LET d == last'.arg.items
           IN  /\ "name" \in DOMAIN d /\ acct'[o].name = d["name"]
               /\ last'.exc = MissingExc("address")
                    => ("email" \in DOMAIN d /\ acct'[o].email = d["email"])
               /\ last'.exc = MissingExc("email") => acct'[o].email = acct[o].email
               /\ acct'[o].address = acct[o].address
               /\ acct'[o].phone_number = acct[o].phone_number
               /\ acct'[o].date_joined = acct[o].date_joined
               /\ acct'[o].id = acct[o].id]_vars

\* C10 witness: deserialize has raised for a missing address on an instance
\* constructed with other values: name and email are the input's, address,
\* phone_number and date_joined are still the constructed ones.
C10_Witness ==
    /\ last.op = "deserialize" /\ last.exc = MissingExc("address")
    /\ acct[last.self].name = Str("alice")
    /\ acct[last.self].email = Str("new@email.com")
    /\ acct[last.self].address = Str("1 Main St")
    /\ acct[last.self].phone_number = Str("555-0100")
    /\ acct[last.self].date_joined = Date(1)
====
